---- MODULE Spec2Model ----
(***************************************************************************)
(* Response-time analysis for fixed-priority preemptive scheduling:        *)
(* the Task / TaskSet data model (rta/models.py) and the analysis engine   *)
(* (rta/analysis.py).                                                      *)
(*                                                                         *)
(* Numbers.  The program computes with Python floats.  Here every time     *)
(* value (C, T, D, R) is an integer number of quanta, one quantum being    *)
(* 0.5e-9 time units, on which the float operations the program uses       *)
(* (+, *, <=, ceil of a quotient) are exact.  The convergence tolerance    *)
(* 1e-9 of compute_response_time is therefore Epsilon = 2 quanta.  Task    *)
(* sets whose parameters are all even numbers of quanta are the ones on    *)
(* which "closer than 1e-9" and "equal" coincide.                          *)
(*                                                                         *)
(* Optional values.  Python's None is the empty sequence and a present     *)
(* value v is <<v>>.                                                       *)
(*                                                                         *)
(* Generators (rta/generators.py).  A utilization or a deadline factor is  *)
(* a whole number of 1/Unit, a random draw in [0, 1) a whole number of     *)
(* 1/RngModulus.  A float operation that is not exact on these grids (a    *)
(* product, a root, an exponential) is the exact result rounded to the     *)
(* grid.  The periods the generator draws are whole multiples of Unit      *)
(* quanta, so that u * T and T * factor are exact.  The Tasks made by      *)
(* generate_random_task_set_uunifast are not analysed here; their times    *)
(* are in quanta of 0.001 / MinC, MinC being the floor 0.001 of C.         *)
(***************************************************************************)
EXTENDS Integers, Sequences, FiniteSets, TLC

VARIABLES
    \* Task construction (one constructor call and what it produced)
    call, obj, raised,
    \* compute_response_time: arguments, loop state, return value
    task, higher_priority_tasks, max_iterations, iteration, R_prev, iterates,
    pc, rt, schedulable,
    \* the caller's list of Tasks, whether TaskSet.tasks is that same list, and
    \* how often the caller changed its list after making the TaskSet
    caller_tasks, shared, changes,
    \* the TaskSet object: lifecycle, fields tasks and _sorted
    ts, tasks, _sorted,
    \* analyze_taskset: the returned pair, and the tasks its loop visited
    all_schedulable, response_times, analyzed,
    \* one call of get_higher_priority_tasks: its argument and outcome
    hp_query,
    \* a call of uunifast (arguments and outcome) and the outcome of the same
    \* call made once more; likewise for generate_taskset
    uu, uu_again, gen, gen_again,
    \* a call of generate_random_task_set_uunifast (arguments and outcome)
    flat

vars == <<call, obj, raised,
          task, higher_priority_tasks, max_iterations, iteration, R_prev,
          iterates, pc, rt, schedulable,
          caller_tasks, shared, changes, ts, tasks, _sorted,
          all_schedulable, response_times, analyzed, hp_query,
          uu, uu_again, gen, gen_again, flat>>

taskVars == <<call, obj>>
rtaVars == <<task, higher_priority_tasks, max_iterations, iteration, R_prev,
             iterates, pc, rt, schedulable>>
setVars == <<caller_tasks, shared, changes, ts, tasks, _sorted,
             all_schedulable, response_times, analyzed, hp_query>>
genVars == <<uu, uu_again, gen, gen_again, flat>>

----------------------------------------------------------------------------
(* Bounds of the model *)

\* longest higher-priority list handed to compute_response_time
MaxHp == 2
\* largest explicit max_iterations argument
MaxIter == 3
\* most Tasks in the list a TaskSet is built from
MaxTasks == 3
\* most changes the caller makes to its list after the TaskSet is made
MaxChanges == 1
\* largest number of tasks asked of a generator
MaxN == 3
\* the values a random draw takes: k / RngModulus for k in 0 .. RngModulus - 1
RngModulus == 4
\* utilizations and deadline factors are whole numbers of 1 / Unit
Unit == 10

\* the time values (in quanta) task parameters are drawn from: odd and even
\* multiples of the quantum, so that consecutive iterates can differ by less
\* than Epsilon, by exactly Epsilon and by more
Times == {1, 2, 3, 6, 7, 12}

(* Program constants *)

\* the convergence tolerance 1e-9, in quanta
Epsilon == 2
\* the default of the max_iterations parameter
DefaultMaxIterations == 1000
\* the floor 0.001 of C in generate_random_task_set_uunifast
MinC == 20

----------------------------------------------------------------------------
(* Optional values and outcomes of a call *)

None == <<>>
Some(v) == <<v>>

NoError == "none"
ValueError == "ValueError"

\* a call that returned v / a call that raised e and returned nothing
Return(v) == [raised |-> NoError, value |-> Some(v)]
Raise(e) == [raised |-> e, value |-> None]

Abs(x) == IF x < 0 THEN -x ELSE x

\* math.ceil(a / b) for a >= 0, b > 0
Ceil(a, b) == (a + b - 1) \div b

----------------------------------------------------------------------------
(* rta/models.py: Task *)

\* Task.__post_init__ without the final C > D check (a faulty variant)
Task_NoCvsD(C, T, D, name, priority) ==
    IF C <= 0 THEN Raise(ValueError)
    ELSE IF T <= 0 THEN Raise(ValueError)
    ELSE IF C > T THEN Raise(ValueError)
    ELSE IF D = None
         THEN Return([C |-> C, T |-> T, D |-> T, name |-> name,
                      priority |-> priority])
    ELSE IF D[1] <= 0 THEN Raise(ValueError)
    ELSE IF D[1] > T THEN Raise(ValueError)
    ELSE Return([C |-> C, T |-> T, D |-> D[1], name |-> name,
                 priority |-> priority])

\* Task(C, T, D, name, priority): the dataclass constructor followed by
\* __post_init__.  D and priority are optional values.
Task(C, T, D, name, priority) ==
    IF C <= 0 THEN Raise(ValueError)
    ELSE IF T <= 0 THEN Raise(ValueError)
    ELSE IF C > T THEN Raise(ValueError)
    ELSE IF D = None
         THEN \* D defaults to T; C > D is then C > T, already excluded
              IF C > T THEN Raise(ValueError)
              ELSE Return([C |-> C, T |-> T, D |-> T, name |-> name,
                           priority |-> priority])
    ELSE IF D[1] <= 0 THEN Raise(ValueError)
    ELSE IF D[1] > T THEN Raise(ValueError)
    ELSE IF C > D[1] THEN Raise(ValueError)
    ELSE Return([C |-> C, T |-> T, D |-> D[1], name |-> name,
                 priority |-> priority])

\* arguments a caller may pass to the constructor, valid or not
TimeArgs == {-1, 0} \cup Times
DeadlineArgs == {None} \cup {Some(d) : d \in TimeArgs}
NameArgs == {"", "a"}
PriorityArgs == {None, Some(0)}

\* the state before any constructor call
TaskIdle ==
    /\ call = None
    /\ obj = None

\* one call Task(C=.., T=.., D=.., name=.., priority=..)
TaskNew ==
    \E C \in TimeArgs, T \in TimeArgs, D \in DeadlineArgs,
       name \in NameArgs, priority \in PriorityArgs :
        \E r \in {Task(C, T, D, name, priority)} :
        /\ call' = Some([C |-> C, T |-> T, D |-> D, name |-> name,
                         priority |-> priority])
        /\ obj' = r.value
        /\ raised' = r.raised
        /\ UNCHANGED rtaVars
        /\ UNCHANGED setVars
        /\ UNCHANGED genVars

----------------------------------------------------------------------------
(* rta/analysis.py: compute_response_time, is_schedulable *)

RECURSIVE Interference(_, _)
\* the inner loop: sum over hp_task of ceil(R_prev / hp_task.T) * hp_task.C
Interference(R, hp) ==
    IF hp = <<>> THEN 0
    ELSE Ceil(R, Head(hp).T) * Head(hp).C + Interference(R, Tail(hp))

\* a new response time that is the interference alone, without task.C (faulty)
R_new_NoC(t, hp, R) == Interference(R, hp)

\* R_new = task.C + interference
R_new(t, hp, R) == t.C + Interference(R, hp)

\* the deadline test that takes R_new = D for a miss (faulty)
DeadlineMiss_AtDeadline(t, Rn) == Rn >= t.D

\* the deadline test against the period instead of the deadline (faulty)
DeadlineMiss_T(t, Rn) == Rn > t.T

\* if R_new > task.D
DeadlineMiss(t, Rn) == Rn > t.D

\* if abs(R_new - R_prev) < 1e-9
Converged(Rn, R) == Abs(Rn - R) < Epsilon

RECURSIVE ResponseTimeLoop(_, _, _, _, _)
\* the for loop of compute_response_time from iteration k with R_prev = R
ResponseTimeLoop(t, hp, maxit, k, R) ==
    IF k >= maxit THEN None
    ELSE LET Rn == R_new(t, hp, R) IN
         IF DeadlineMiss(t, Rn) THEN None
         ELSE IF Converged(Rn, R) THEN Some(Rn)
         ELSE ResponseTimeLoop(t, hp, maxit, k + 1, Rn)

\* compute_response_time(task, higher_priority_tasks, max_iterations)
compute_response_time(t, hp, maxit) == ResponseTimeLoop(t, hp, maxit, 0, t.C)

\* is_schedulable that reports every task schedulable (faulty)
is_schedulable_Always(t, hp) == TRUE

\* is_schedulable(task, higher_priority_tasks)
is_schedulable(t, hp) ==
    compute_response_time(t, hp, DefaultMaxIterations) # None

\* all sequences over S of length at most n
SeqsUpTo(S, n) == UNION {[1 .. k -> S] : k \in 0 .. n}

\* the Task values of the outcomes that did not raise
Constructed(outcomes) == {r.value[1] : r \in {o \in outcomes : o.raised = NoError}}

\* target tasks: every Task(C, T, D) the constructor accepts
TargetTasks ==
    Constructed({Task(C, T, Some(D), "", None) :
                   C \in Times, T \in Times, D \in Times})

\* higher-priority tasks: every Task(C, T) the constructor accepts; their D is
\* never read by compute_response_time
HpTasks ==
    Constructed({Task(C, T, None, "", None) :
                   C \in Times, T \in Times})

IterationArgs == (0 .. MaxIter) \cup {DefaultMaxIterations}

\* no call of compute_response_time is in progress
RtaIdle ==
    /\ task = None
    /\ higher_priority_tasks = <<>>
    /\ max_iterations = 0
    /\ iteration = 0
    /\ R_prev = 0
    /\ iterates = <<>>
    /\ pc = "idle"
    /\ rt = None
    /\ schedulable = None

\* entry of compute_response_time: R_prev = task.C
Enter ==
    /\ pc = "idle"
    /\ \E t \in TargetTasks, hp \in SeqsUpTo(HpTasks, MaxHp),
          maxit \in IterationArgs :
        /\ task' = Some(t)
        /\ higher_priority_tasks' = hp
        /\ max_iterations' = maxit
        /\ R_prev' = t.C
        /\ iterates' = <<t.C>>
    /\ iteration' = 0
    /\ pc' = "loop"
    /\ UNCHANGED <<rt, schedulable>>
    /\ UNCHANGED <<taskVars, raised, setVars, genVars>>

\* one pass of the loop body that ends in "return None" (deadline miss)
IterateMiss ==
    /\ pc = "loop"
    /\ iteration < max_iterations
    /\ \E Rn \in {R_new(task[1], higher_priority_tasks, R_prev)} :
        /\ DeadlineMiss(task[1], Rn)
        /\ iterates' = Append(iterates, Rn)
        /\ rt' = None
        /\ pc' = "return"
    /\ UNCHANGED <<task, higher_priority_tasks, max_iterations, iteration,
                   R_prev, schedulable>>
    /\ UNCHANGED <<taskVars, raised, setVars, genVars>>

\* one pass of the loop body that ends in "return R_new" (convergence)
IterateConverged ==
    /\ pc = "loop"
    /\ iteration < max_iterations
    /\ \E Rn \in {R_new(task[1], higher_priority_tasks, R_prev)} :
        /\ ~DeadlineMiss(task[1], Rn)
        /\ Converged(Rn, R_prev)
        /\ iterates' = Append(iterates, Rn)
        /\ rt' = Some(Rn)
        /\ pc' = "return"
    /\ UNCHANGED <<task, higher_priority_tasks, max_iterations, iteration,
                   R_prev, schedulable>>
    /\ UNCHANGED <<taskVars, raised, setVars, genVars>>

\* one pass of the loop body that ends in "R_prev = R_new"
IterateAgain ==
    /\ pc = "loop"
    /\ iteration < max_iterations
    /\ \E Rn \in {R_new(task[1], higher_priority_tasks, R_prev)} :
        /\ ~DeadlineMiss(task[1], Rn)
        /\ ~Converged(Rn, R_prev)
        /\ iterates' = Append(iterates, Rn)
        /\ R_prev' = Rn
        /\ iteration' = iteration + 1
    /\ UNCHANGED <<task, higher_priority_tasks, max_iterations, pc, rt,
                   schedulable>>
    /\ UNCHANGED <<taskVars, raised, setVars, genVars>>

\* range(max_iterations) is used up: the final "return None"
Exhausted ==
    /\ pc = "loop"
    /\ iteration >= max_iterations
    /\ rt' = None
    /\ pc' = "return"
    /\ UNCHANGED <<task, higher_priority_tasks, max_iterations, iteration,
                   R_prev, iterates, schedulable>>
    /\ UNCHANGED <<taskVars, raised, setVars, genVars>>

\* the caller asks is_schedulable about the same task and list
IsSchedulable ==
    /\ pc = "return"
    /\ schedulable = None
    /\ schedulable' = Some(is_schedulable(task[1], higher_priority_tasks))
    /\ UNCHANGED <<task, higher_priority_tasks, max_iterations, iteration,
                   R_prev, iterates, pc, rt>>
    /\ UNCHANGED <<taskVars, raised, setVars, genVars>>

----------------------------------------------------------------------------
(* rta/models.py: TaskSet *)

\* a sort key is <<0, v>> for the number v and <<1, 0>> for float('inf'),
\* which Python orders after every number
KeyLess(k1, k2) == k1[1] < k2[1] \/ (k1[1] = k2[1] /\ k1[2] < k2[2])

\* s in ascending order of keys (keys[i] is the key of s[i]), elements of equal
\* key kept in list order: the stable sort of sorted() and list.sort()
StableSort(s, keys) ==
    LET n == Len(s)
        rank(i) == 1 + Cardinality({j \in 1 .. n :
                          \/ KeyLess(keys[j], keys[i])
                          \/ (~KeyLess(keys[i], keys[j]) /\ j < i)})
    IN  [r \in 1 .. n |-> s[CHOOSE i \in 1 .. n : rank(i) = r]]

\* longest period first (faulty)
PeriodKey_Descending(t) == <<0, 0 - t.T>>

\* key=lambda t: t.T
PeriodKey(t) == <<0, t.T>>

\* key=lambda t: t.priority if t.priority is not None else float('inf')
PriorityKey(t) == IF t.priority = None THEN <<1, 0>> ELSE <<0, t.priority[1]>>

\* f"τ{i+1}" for the 0-based index i, here the 1-based position n = i + 1
TauName(n) == "τ" \o ToString(n)

\* the assignment that forgets the deadline, which then defaults to T (faulty)
_assign_rate_monotonic_priorities_ImplicitD(ts_tasks) ==
    LET sorted_tasks ==
            StableSort(ts_tasks,
                       [i \in 1 .. Len(ts_tasks) |-> PeriodKey(ts_tasks[i])])
    IN
    [n \in 1 .. Len(sorted_tasks) |->
        LET t == sorted_tasks[n] IN
        Task(t.C, t.T, None,
             IF t.name # "" THEN t.name ELSE TauName(n),
             Some(n - 1)).value[1]]

\* TaskSet._assign_rate_monotonic_priorities: the new list self.tasks
_assign_rate_monotonic_priorities(ts_tasks) ==
    LET sorted_tasks ==
            StableSort(ts_tasks,
                       [i \in 1 .. Len(ts_tasks) |-> PeriodKey(ts_tasks[i])])
    IN
    [n \in 1 .. Len(sorted_tasks) |->
        LET t == sorted_tasks[n] IN
        Task(t.C, t.T, Some(t.D),
             IF t.name # "" THEN t.name ELSE TauName(n),
             Some(n - 1)).value[1]]

\* TaskSet.__post_init__ that marks a list with priorities as sorted (faulty)
TaskSet_MarkedSorted(arg) ==
    IF arg = <<>>
    THEN Return([tasks |-> arg, _sorted |-> FALSE, shared |-> TRUE])
    ELSE IF \A i \in 1 .. Len(arg) : arg[i].priority # None
    THEN Return([tasks |-> arg, _sorted |-> TRUE, shared |-> TRUE])
    ELSE IF \A i \in 1 .. Len(arg) : arg[i].priority = None
    THEN Return([tasks |-> _assign_rate_monotonic_priorities(arg),
                 _sorted |-> TRUE, shared |-> FALSE])
    ELSE Raise(ValueError)

\* TaskSet.__post_init__ that lets a mixed list through unchanged (faulty)
TaskSet_MixedAccepted(arg) ==
    IF arg # <<>> /\ \A i \in 1 .. Len(arg) : arg[i].priority = None
    THEN Return([tasks |-> _assign_rate_monotonic_priorities(arg),
                 _sorted |-> TRUE, shared |-> FALSE])
    ELSE Return([tasks |-> arg, _sorted |-> FALSE, shared |-> TRUE])

\* TaskSet(tasks=arg): the object's fields, and whether self.tasks is the very
\* list the caller passed (the dataclass stores the reference)
TaskSet(arg) ==
    IF arg = <<>>
    THEN Return([tasks |-> arg, _sorted |-> FALSE, shared |-> TRUE])
    ELSE IF \A i \in 1 .. Len(arg) : arg[i].priority # None
    THEN Return([tasks |-> arg, _sorted |-> FALSE, shared |-> TRUE])
    ELSE IF \A i \in 1 .. Len(arg) : arg[i].priority = None
    THEN Return([tasks |-> _assign_rate_monotonic_priorities(arg),
                 _sorted |-> TRUE, shared |-> FALSE])
    ELSE Raise(ValueError)

\* TaskSet.get_sorted_tasks: the fields afterwards; it returns self.tasks
get_sorted_tasks(self) ==
    IF ~self._sorted
    THEN [tasks |-> StableSort(self.tasks,
                    [i \in 1 .. Len(self.tasks) |-> PriorityKey(self.tasks[i])]),
          _sorted |-> TRUE]
    ELSE self

\* the query that also returns the members of equal priority (faulty)
get_higher_priority_tasks_OrEqual(self, t) ==
    IF t.priority = None THEN Raise(ValueError)
    ELSE Return(SelectSeq(get_sorted_tasks(self).tasks,
                          LAMBDA x : /\ x.priority # None
                                     /\ x.priority[1] <= t.priority[1]))

\* TaskSet.get_higher_priority_tasks(task): the returned list
get_higher_priority_tasks(self, t) ==
    IF t.priority = None THEN Raise(ValueError)
    ELSE Return(SelectSeq(get_sorted_tasks(self).tasks,
                          LAMBDA x : /\ x.priority # None
                                     /\ x.priority[1] < t.priority[1]))

----------------------------------------------------------------------------
(* rta/analysis.py: analyze_taskset *)

\* response_times[key] = value on a dict
Put(dict, key, value) ==
    [k \in DOMAIN dict \cup {key} |-> IF k = key THEN value ELSE dict[k]]

\* the key that keeps only the fallback, whatever the name (faulty)
task_name_Fallback(t) == "Task_prio_" \o ToString(t.priority[1])

\* task_name = task.name if task.name else f"Task_prio_{task.priority}"
task_name(t) ==
    IF t.name # "" THEN t.name
    ELSE "Task_prio_" \o ToString(t.priority[1])

\* the flag taken from the last task alone (faulty)
Flag_LastOnly(flag, r) == r # None

\* if rt is None: all_schedulable = False
Flag(flag, r) == IF r = None THEN FALSE ELSE flag

RECURSIVE AnalyzeLoop(_, _, _)
\* "for task in sorted_tasks" from position i on; acc holds all_schedulable,
\* response_times and (for the record) the tasks visited so far
AnalyzeLoop(self, i, acc) ==
    IF i > Len(self.tasks) THEN Return(acc)
    ELSE LET t == self.tasks[i]
             hp_tasks == get_higher_priority_tasks(self, t)
         IN  IF hp_tasks.raised # NoError THEN Raise(hp_tasks.raised)
             ELSE LET r == compute_response_time(t, hp_tasks.value[1],
                                                 DefaultMaxIterations)
                  IN  AnalyzeLoop(self, i + 1,
                        [all_schedulable |-> Flag(acc.all_schedulable, r),
                         response_times |->
                            Put(acc.response_times, task_name(t), r),
                         analyzed |-> Append(acc.analyzed, t)])

\* analyze_taskset(taskset), after its call of get_sorted_tasks
analyze_taskset(self) ==
    AnalyzeLoop(self, 1, [all_schedulable |-> TRUE, response_times |-> <<>>,
                          analyzed |-> <<>>])

----------------------------------------------------------------------------
(* A caller that builds a list of Tasks, makes a TaskSet of it and uses it *)

\* what the caller passes to Task(...) for the members of its list
MemberC == {1}
MemberT == {2, 6}
MemberD == {None, Some(1)}
MemberNames == {"", "a"}
MemberPriorities == {None, Some(-1), Some(0)}

\* no TaskSet yet, an empty list in the caller's hands
SetIdle ==
    /\ caller_tasks = <<>>
    /\ shared = FALSE
    /\ changes = 0
    /\ ts = "none"
    /\ tasks = <<>>
    /\ _sorted = FALSE
    /\ all_schedulable = None
    /\ response_times = <<>>
    /\ analyzed = <<>>
    /\ hp_query = None

\* the caller appends Task(...) to its list
CallerAppend ==
    /\ ts = "none"
    /\ Len(caller_tasks) < MaxTasks
    /\ \E C \in MemberC, T \in MemberT, D \in MemberD,
          name \in MemberNames, priority \in MemberPriorities :
        \E r \in {Task(C, T, D, name, priority)} :
        /\ r.raised = NoError
        /\ caller_tasks' = Append(caller_tasks, r.value[1])
    /\ raised' = NoError
    /\ UNCHANGED <<shared, changes, ts, tasks, _sorted, all_schedulable,
                   response_times, analyzed, hp_query>>
    /\ UNCHANGED <<taskVars, rtaVars, genVars>>

\* TaskSet(tasks=caller_tasks)
TaskSetNew ==
    /\ ts = "none"
    /\ \E r \in {TaskSet(caller_tasks)} :
        /\ raised' = r.raised
        /\ IF r.raised = NoError
           THEN /\ ts' = "constructed"
                /\ tasks' = r.value[1].tasks
                /\ _sorted' = r.value[1]._sorted
                /\ shared' = r.value[1].shared
           ELSE /\ ts' = "error"
                /\ UNCHANGED <<tasks, _sorted, shared>>
    /\ UNCHANGED <<caller_tasks, changes, all_schedulable, response_times,
                   analyzed, hp_query>>
    /\ UNCHANGED <<taskVars, rtaVars, genVars>>

\* taskset.get_sorted_tasks(); list.sort() works in place, on the caller's
\* list too when that is the same list
GetSortedTasks ==
    /\ ts = "constructed"
    /\ \E self \in {get_sorted_tasks([tasks |-> tasks, _sorted |-> _sorted])} :
        /\ tasks' = self.tasks
        /\ _sorted' = self._sorted
        /\ caller_tasks' = IF shared THEN self.tasks ELSE caller_tasks
    /\ raised' = NoError
    /\ UNCHANGED <<shared, changes, ts, all_schedulable, response_times, analyzed,
                   hp_query>>
    /\ UNCHANGED <<taskVars, rtaVars, genVars>>

\* analyze_taskset(taskset)
AnalyzeTaskset ==
    /\ ts = "constructed"
    /\ all_schedulable = None
    /\ \E self \in {get_sorted_tasks([tasks |-> tasks, _sorted |-> _sorted])} :
       \E r \in {analyze_taskset(self)} :
        /\ tasks' = self.tasks
        /\ _sorted' = self._sorted
        /\ caller_tasks' = IF shared THEN self.tasks ELSE caller_tasks
        /\ raised' = r.raised
        /\ IF r.raised = NoError
           THEN /\ all_schedulable' = Some(r.value[1].all_schedulable)
                /\ response_times' = r.value[1].response_times
                /\ analyzed' = r.value[1].analyzed
           ELSE UNCHANGED <<all_schedulable, response_times, analyzed>>
    /\ UNCHANGED <<shared, changes, ts, hp_query>>
    /\ UNCHANGED <<taskVars, rtaVars, genVars>>

\* the Tasks a caller asks about: the members, and Tasks of its own making
QueryArgs ==
    {tasks[i] : i \in 1 .. Len(tasks)}
        \cup {Task(1, 2, None, "", p).value[1] : p \in MemberPriorities}

\* taskset.get_higher_priority_tasks(t); a call that raises has not sorted
GetHigherPriorityTasks ==
    /\ ts = "constructed"
    /\ hp_query = None
    /\ \E t \in QueryArgs :
       \E self \in {[tasks |-> tasks, _sorted |-> _sorted]} :
       \E r \in {get_higher_priority_tasks(self, t)} :
        /\ hp_query' = Some([task |-> t, outcome |-> r])
        /\ raised' = r.raised
        /\ IF r.raised = NoError
           THEN \E after \in {get_sorted_tasks(self)} :
                /\ tasks' = after.tasks
                /\ _sorted' = after._sorted
                /\ caller_tasks' = IF shared THEN after.tasks ELSE caller_tasks
           ELSE UNCHANGED <<tasks, _sorted, caller_tasks>>
    /\ UNCHANGED <<shared, changes, ts, all_schedulable, response_times,
                   analyzed>>
    /\ UNCHANGED <<taskVars, rtaVars, genVars>>

\* after the TaskSet is made the caller goes on using its list: lst.pop() or
\* lst.append(Task(...)).  Where TaskSet.tasks is that same list the TaskSet
\* sees the change.
CallerMutate ==
    /\ ts = "constructed"
    /\ changes < MaxChanges
    /\ changes' = changes + 1
    /\ \/ /\ caller_tasks # <<>>
          /\ caller_tasks' = SubSeq(caller_tasks, 1, Len(caller_tasks) - 1)
       \/ /\ Len(caller_tasks) < MaxTasks
          /\ \E priority \in MemberPriorities :
              \E r \in {Task(1, 2, None, "", priority)} :
              /\ r.raised = NoError
              /\ caller_tasks' = Append(caller_tasks, r.value[1])
    /\ tasks' = IF shared THEN caller_tasks' ELSE tasks
    /\ raised' = NoError
    /\ UNCHANGED <<shared, ts, _sorted, all_schedulable, response_times,
                   analyzed, hp_query>>
    /\ UNCHANGED <<taskVars, rtaVars, genVars>>

----------------------------------------------------------------------------
(* rta/generators.py: the random number generator *)

\* a generator that takes its state from the system whatever the seed (faulty)
Random_Unseeded(seed) == 0 .. RngModulus - 1

\* random.Random(seed): the states the new generator can be in; the seed
\* fixes the state, and without a seed it comes from the system
Random(seed) ==
    IF seed = None THEN 0 .. RngModulus - 1
    ELSE {seed[1] % RngModulus}

\* rng.random(): the draw (in 1 / RngModulus) and the generator's next state
random(rng) == [value |-> rng, rng |-> (rng + 1) % RngModulus]

\* x rounded to the nearest whole number, for x = a / b with a >= 0, b > 0
Round(a, b) == (2 * a + b) \div (2 * b)

\* r ** (1.0 / m) for a draw r, in 1 / RngModulus, rounded to the nearest
Root(r, m) ==
    LET ks == {k \in 1 .. RngModulus :
                  (2 * k - 1) ^ m <= r * (2 ^ m) * (RngModulus ^ (m - 1))}
    IN  IF ks = {} THEN 0 ELSE CHOOSE k \in ks : \A j \in ks : j <= k

\* rng.uniform(a, b) = a + (b - a) * random(), given the draw r
uniform(a, b, r) == a + Round((b - a) * r, RngModulus)

\* math.exp(rng.uniform(math.log(period_min), math.log(period_max))), given
\* the draw r: period_min^(1 - r) * period_max^r, rounded down to a whole
\* multiple of Unit
LogUniform(period_min, period_max, r) ==
    LET a == period_min \div Unit
        b == period_max \div Unit
        ts_ == {t \in a .. b :
                   t ^ RngModulus <= (a ^ (RngModulus - r)) * (b ^ r)}
    IN  Unit * (CHOOSE t \in ts_ : \A j \in ts_ : j <= t)

----------------------------------------------------------------------------
(* rta/generators.py: uunifast *)

RECURSIVE UunifastLoop(_, _, _, _, _)
\* "for i in range(1, n)" from i on, then the last append
UunifastLoop(n, i, sum_u, rng, utilizations) ==
    IF i >= n THEN Append(utilizations, sum_u)
    ELSE LET d == random(rng)
             next_sum_u == Round(sum_u * Root(d.value, n - i), RngModulus)
         IN  UunifastLoop(n, i + 1, next_sum_u, d.rng,
                          Append(utilizations, sum_u - next_sum_u))

\* uunifast without the append of what remains after the loop (faulty)
uunifast_NoRemainder(n, u_total, rng) ==
    IF n <= 0 THEN Raise(ValueError)
    ELSE IF u_total < 0 THEN Raise(ValueError)
    ELSE Return(SubSeq(UunifastLoop(n, 1, u_total, rng, <<>>), 1, n - 1))

\* uunifast(n, u_total, seed), rng being the state of random.Random(seed)
uunifast(n, u_total, rng) ==
    IF n <= 0 THEN Raise(ValueError)
    ELSE IF u_total < 0 THEN Raise(ValueError)
    ELSE Return(UunifastLoop(n, 1, u_total, rng, <<>>))

----------------------------------------------------------------------------
(* rta/generators.py: generate_taskset *)

RECURSIVE GenerateLoop(_, _, _, _, _, _, _, _)
\* "for i, u in enumerate(utilizations)" from position k = i + 1 on; rng is
\* the state of the generator the periods and deadline factors are drawn from
GenerateLoop(utilizations, k, rng, new_tasks, period_min, period_max, deadline_factor_min, deadline_factor_max) ==
    IF k > Len(utilizations) THEN Return(new_tasks)
    ELSE LET u == utilizations[k]
             d1 == random(rng)
             T == LogUniform(period_min, period_max, d1.value)
             C == u * (T \div Unit)
             d2 == random(d1.rng)
             deadline_factor ==
                 IF deadline_factor_min = deadline_factor_max
                 THEN deadline_factor_min
                 ELSE uniform(deadline_factor_min, deadline_factor_max,
                              d2.value)
             rng_after ==
                 IF deadline_factor_min = deadline_factor_max
                 THEN d1.rng ELSE d2.rng
             D0 == (T \div Unit) * deadline_factor
             D == IF C > D0 THEN C ELSE D0
             t == Task(C, T, Some(D), TauName(k), None)
         IN  IF t.raised # NoError THEN Raise(t.raised)
             ELSE GenerateLoop(utilizations, k + 1, rng_after,
                               Append(new_tasks, t.value[1]),
                               period_min, period_max,
                               deadline_factor_min, deadline_factor_max)

\* generate_taskset without the check of deadline_factor_max (faulty)
generate_taskset_FactorUnchecked(n, target_utilization, period_min, period_max, deadline_factor_min, deadline_factor_max, rng, uunifast_rng) ==
    IF period_min <= 0 \/ period_max <= 0 \/ period_min > period_max
    THEN Raise(ValueError)
    ELSE IF deadline_factor_min <= 0
            \/ deadline_factor_max < deadline_factor_min
    THEN Raise(ValueError)
    ELSE LET utilizations == uunifast(n, target_utilization, uunifast_rng)
         IN  IF utilizations.raised # NoError
             THEN Raise(utilizations.raised)
             ELSE LET made == GenerateLoop(utilizations.value[1], 1, rng,
                                  <<>>, period_min, period_max,
                                  deadline_factor_min, deadline_factor_max)
                  IN  IF made.raised # NoError THEN Raise(made.raised)
                      ELSE TaskSet(made.value[1])

\* generate_taskset(n, target_utilization, period_min, period_max,
\* deadline_factor_min, deadline_factor_max, seed): rng and uunifast_rng are
\* the states of the two generators made from the seed, the one of this
\* function and the one of uunifast
generate_taskset(n, target_utilization, period_min, period_max, deadline_factor_min, deadline_factor_max, rng, uunifast_rng) ==
    IF period_min <= 0 \/ period_max <= 0 \/ period_min > period_max
    THEN Raise(ValueError)
    ELSE IF deadline_factor_min <= 0
            \/ deadline_factor_max < deadline_factor_min
    THEN Raise(ValueError)
    ELSE IF deadline_factor_max > Unit
    THEN Raise(ValueError)
    ELSE LET utilizations == uunifast(n, target_utilization, uunifast_rng)
         IN  IF utilizations.raised # NoError
             THEN Raise(utilizations.raised)
             ELSE LET made == GenerateLoop(utilizations.value[1], 1, rng,
                                  <<>>, period_min, period_max,
                                  deadline_factor_min, deadline_factor_max)
                  IN  IF made.raised # NoError THEN Raise(made.raised)
                      ELSE TaskSet(made.value[1])

----------------------------------------------------------------------------
(* rta/generators.py: generate_random_task_set_uunifast *)

RECURSIVE FlatLoop(_, _, _, _, _, _)
\* "for i, u in enumerate(utilizations)" from position k = i + 1 on
FlatLoop(utilizations, k, rng, new_tasks, min_period, max_period) ==
    IF k > Len(utilizations) THEN Return(new_tasks)
    ELSE LET u == utilizations[k]
             d == random(rng)
             T == LogUniform(min_period, max_period, d.value)
             C0 == u * (T \div Unit)
             C1 == IF C0 < MinC THEN MinC ELSE C0
             D == T
             C == IF C1 > D THEN D ELSE C1
             t == Task(C, T, Some(D), TauName(k), None)
         IN  IF t.raised # NoError THEN Raise(t.raised)
             ELSE FlatLoop(utilizations, k + 1, d.rng,
                           Append(new_tasks, t.value[1]),
                           min_period, max_period)

\* the flat generator without the floor of C (faulty)
generate_random_task_set_uunifast_NoFloor(n, u_total, min_period, max_period, rng, uunifast_rng) ==
    IF n <= 0 THEN Raise(ValueError)
    ELSE IF min_period <= 0 \/ max_period <= 0 \/ min_period > max_period
    THEN Raise(ValueError)
    ELSE IF u_total < 0 THEN Raise(ValueError)
    ELSE LET utilizations == uunifast(n, u_total, uunifast_rng).value[1]
         IN  Return([k \in 1 .. n |->
                 LET T == LogUniform(min_period, max_period,
                                     (rng + k - 1) % RngModulus)
                     C0 == utilizations[k] * (T \div Unit)
                 IN  [C |-> IF C0 > T THEN T ELSE C0, T |-> T, D |-> T,
                      name |-> TauName(k), priority |-> None]])

\* generate_random_task_set_uunifast(n, u_total, min_period, max_period,
\* seed): rng and uunifast_rng are the states of the two generators made from
\* the seed
generate_random_task_set_uunifast(n, u_total, min_period, max_period, rng, uunifast_rng) ==
    IF n <= 0 THEN Raise(ValueError)
    ELSE IF min_period <= 0 \/ max_period <= 0 \/ min_period > max_period
    THEN Raise(ValueError)
    ELSE IF u_total < 0 THEN Raise(ValueError)
    ELSE LET utilizations == uunifast(n, u_total, uunifast_rng)
         IN  IF utilizations.raised # NoError
             THEN Raise(utilizations.raised)
             ELSE FlatLoop(utilizations.value[1], 1, rng, <<>>,
                           min_period, max_period)

----------------------------------------------------------------------------
(* rta/generators.py: the draws one generate_taskset call makes *)

\* the draws of uunifast: one rng.random() per pass of "for i in range(1, n)",
\* from the generator uunifast makes; position is the number of draws made
\* from that generator before
UunifastDraws(n, uunifast_rng) ==
    [i \in 1 .. n - 1 |->
        [generator |-> "uunifast", position |-> i - 1,
         value |-> (uunifast_rng + i - 1) % RngModulus]]

\* the draws of generate_taskset's own generator: per task one rng.uniform
\* for the period and, unless the factor is fixed, one for the factor
GenerateDraws(n, deadline_factor_min, deadline_factor_max, rng) ==
    LET per == IF deadline_factor_min = deadline_factor_max THEN 1 ELSE 2
    IN  [i \in 1 .. n * per |->
            [generator |-> "generate_taskset", position |-> i - 1,
             value |-> (rng + i - 1) % RngModulus]]

----------------------------------------------------------------------------
(* A caller of the generators: one call, and the same call once more *)

\* the arguments a caller passes, valid or not
CountArgs == -1 .. MaxN
UtilizationArgs == {-1, 0, Unit \div 2, Unit + 2}
SeedArgs == {None, Some(0), Some(1)}
PeriodArgs == {0, Unit, 4 * Unit}
FactorArgs == {0, Unit \div 2, Unit, Unit + 1}

\* no generator called yet
GenIdle ==
    /\ uu = None
    /\ uu_again = None
    /\ gen = None
    /\ gen_again = None
    /\ flat = None

\* uunifast(n, u_total, seed)
Uunifast ==
    /\ uu = None
    /\ gen = None
    /\ flat = None
    /\ \E n \in CountArgs, u_total \in UtilizationArgs, seed \in SeedArgs :
       \E rng \in Random(seed) :
       \E r \in {uunifast(n, u_total, rng)} :
        /\ uu' = Some([n |-> n, u_total |-> u_total, seed |-> seed,
                       outcome |-> r])
        /\ raised' = r.raised
    /\ UNCHANGED <<uu_again, gen, gen_again, flat>>
    /\ UNCHANGED <<taskVars, rtaVars, setVars>>

\* uunifast called again with the arguments of the first call
UunifastAgain ==
    /\ uu # None
    /\ uu_again = None
    /\ \E rng \in Random(uu[1].seed) :
       \E r \in {uunifast(uu[1].n, uu[1].u_total, rng)} :
        /\ uu_again' = Some(r)
        /\ raised' = r.raised
    /\ UNCHANGED <<uu, gen, gen_again, flat>>
    /\ UNCHANGED <<taskVars, rtaVars, setVars>>

\* taskset = generate_taskset(n, target_utilization, period_min, period_max,
\* deadline_factor_min, deadline_factor_max, seed)
GenerateTaskset ==
    /\ gen = None
    /\ uu = None
    /\ flat = None
    /\ ts = "none"
    /\ \E n \in CountArgs, target_utilization \in UtilizationArgs,
          period_min \in PeriodArgs, period_max \in PeriodArgs,
          deadline_factor_min \in FactorArgs,
          deadline_factor_max \in FactorArgs, seed \in SeedArgs :
       \E rng \in Random(seed), uunifast_rng \in Random(seed) :
       \E r \in {generate_taskset(n, target_utilization, period_min,
                     period_max, deadline_factor_min, deadline_factor_max,
                     rng, uunifast_rng)} :
        /\ gen' = Some([n |-> n, target_utilization |-> target_utilization,
                        period_min |-> period_min, period_max |-> period_max,
                        deadline_factor_min |-> deadline_factor_min,
                        deadline_factor_max |-> deadline_factor_max,
                        seed |-> seed, outcome |-> r,
                        draws |->
                            IF r.raised # NoError THEN <<>>
                            ELSE UunifastDraws(n, uunifast_rng)
                                 \o GenerateDraws(n, deadline_factor_min,
                                        deadline_factor_max, rng)])
        /\ raised' = r.raised
        /\ IF r.raised = NoError
           THEN /\ ts' = "constructed"
                /\ tasks' = r.value[1].tasks
                /\ _sorted' = r.value[1]._sorted
                /\ shared' = r.value[1].shared
           ELSE UNCHANGED <<ts, tasks, _sorted, shared>>
    /\ UNCHANGED <<caller_tasks, changes, all_schedulable, response_times,
                   analyzed, hp_query>>
    /\ UNCHANGED <<uu, uu_again, gen_again, flat>>
    /\ UNCHANGED <<taskVars, rtaVars>>

\* generate_taskset called again with the arguments of the first call
GenerateAgain ==
    /\ gen # None
    /\ gen_again = None
    /\ \E rng \in Random(gen[1].seed), uunifast_rng \in Random(gen[1].seed) :
       \E r \in {generate_taskset(gen[1].n, gen[1].target_utilization,
                     gen[1].period_min, gen[1].period_max,
                     gen[1].deadline_factor_min, gen[1].deadline_factor_max,
                     rng, uunifast_rng)} :
        /\ gen_again' = Some(r)
        /\ raised' = r.raised
    /\ UNCHANGED <<uu, uu_again, gen, flat>>
    /\ UNCHANGED <<taskVars, rtaVars, setVars>>

\* generate_random_task_set_uunifast(n, u_total, min_period, max_period,
\* seed)
GenerateFlat ==
    /\ flat = None
    /\ uu = None
    /\ gen = None
    /\ \E n \in CountArgs, u_total \in UtilizationArgs,
          min_period \in PeriodArgs, max_period \in PeriodArgs,
          seed \in SeedArgs :
       \E rng \in Random(seed), uunifast_rng \in Random(seed) :
       \E r \in {generate_random_task_set_uunifast(n, u_total, min_period,
                     max_period, rng, uunifast_rng)} :
        /\ flat' = Some([n |-> n, u_total |-> u_total,
                         min_period |-> min_period,
                         max_period |-> max_period,
                         seed |-> seed, outcome |-> r])
        /\ raised' = r.raised
    /\ UNCHANGED <<uu, uu_again, gen, gen_again>>
    /\ UNCHANGED <<taskVars, rtaVars, setVars>>

----------------------------------------------------------------------------
(* Specifications *)

Init ==
    /\ TaskIdle
    /\ raised = NoError
    /\ RtaIdle
    /\ SetIdle
    /\ GenIdle

NextTask == TaskNew

NextRTA ==
    \/ Enter
    \/ IterateMiss
    \/ IterateConverged
    \/ IterateAgain
    \/ Exhausted
    \/ IsSchedulable

NextTaskSet ==
    \/ CallerAppend
    \/ TaskSetNew
    \/ GetSortedTasks
    \/ GetHigherPriorityTasks
    \/ AnalyzeTaskset

\* the Task constructor
SpecTask == Init /\ [][NextTask]_vars

\* the analysis of one task
SpecRTA == Init /\ [][NextRTA]_vars

\* a TaskSet and its analysis
SpecTaskSet == Init /\ [][NextTaskSet]_vars

NextOwnership ==
    \/ NextTaskSet
    \/ CallerMutate

\* a TaskSet whose caller keeps using the list it passed in
SpecOwnership == Init /\ [][NextOwnership]_vars

NextGenerators ==
    \/ Uunifast
    \/ UunifastAgain
    \/ GenerateTaskset
    \/ GenerateAgain
    \/ GenerateFlat
    \/ AnalyzeTaskset

\* the generators, and the analysis of a generated TaskSet
SpecGenerators == Init /\ [][NextGenerators]_vars

----------------------------------------------------------------------------
(* Properties *)

\* the six inequalities of a Task
SixInequalities(C, T, D) ==
    C > 0 /\ T > 0 /\ D > 0 /\ C <= T /\ D <= T /\ C <= D

\* C1: Task(...) succeeds exactly when C > 0, T > 0, D > 0, C <= T, D <= T and
\* C <= D hold with D taken as T when unset; every other call raises and leaves
\* no Task; the Task made carries the arguments and satisfies all six.
C1_TaskValidation ==
    call # None =>
        LET a == call[1]
            D == IF a.D = None THEN a.T ELSE a.D[1]
        IN  /\ (raised = NoError) <=> SixInequalities(a.C, a.T, D)
            /\ raised # NoError => raised = ValueError /\ obj = None
            /\ raised = NoError =>
                   obj = Some([C |-> a.C, T |-> a.T, D |-> D,
                               name |-> a.name, priority |-> a.priority])
            /\ obj # None =>
                   SixInequalities(obj[1].C, obj[1].T, obj[1].D)

\* a Task was made from a call that left D unset, with C = T
C1_Witness ==
    /\ call # None
    /\ call[1].D = None
    /\ call[1].C = call[1].T
    /\ obj # None

\* C2: a value R returned by compute_response_time satisfies C <= R <= D of
\* the target task.
C2_ResponseTimeBounds ==
    pc = "return" /\ rt # None =>
        task[1].C <= rt[1] /\ rt[1] <= task[1].D

\* a value above C was returned for a target with D < T and two
\* higher-priority tasks
C2_Witness ==
    /\ pc = "return"
    /\ rt # None
    /\ Len(higher_priority_tasks) = 2
    /\ rt[1] > task[1].C
    /\ task[1].D < task[1].T

\* C3: a value R returned by compute_response_time is the first iterate equal
\* to its predecessor, so R = C + sum_j ceil(R / T_j) * C_j; with no
\* higher-priority task R is exactly C.
C3_FixedPoint ==
    pc = "return" /\ rt # None =>
        LET n == Len(iterates) IN
        /\ n >= 2
        /\ rt[1] = iterates[n]
        /\ iterates[n] = iterates[n - 1]
        /\ \A i \in 1 .. n - 2 : iterates[i] # iterates[i + 1]
        /\ rt[1] = R_new(task[1], higher_priority_tasks, rt[1])
        /\ (higher_priority_tasks = <<>> => rt[1] = task[1].C)

\* C4: when max_iterations passes of the loop have been made, no iterate
\* exceeds D and no two consecutive iterates are equal, the call returns None.
C4_ExhaustedIsNone ==
    ( /\ pc = "return"
      /\ Len(iterates) = max_iterations + 1
      /\ \A i \in 1 .. Len(iterates) : iterates[i] <= task[1].D
      /\ \A i \in 1 .. Len(iterates) - 1 : iterates[i] # iterates[i + 1] )
    => rt = None

\* a <= b on optional results, None being greater than every value
Leq(a, b) == b = None \/ (a # None /\ a[1] <= b[1])

\* C5: for a fixed target task and max_iterations, one more higher-priority
\* task never decreases the result of compute_response_time.
C5_MonotonicInterference ==
    pc = "return" =>
        \A t \in HpTasks :
            Leq(rt, compute_response_time(task[1],
                        Append(higher_priority_tasks, t), max_iterations))

\* C6: is_schedulable(task, hp) is true exactly when compute_response_time(
\* task, hp), run with the default max_iterations, returned a value.
C6_IsSchedulableIff ==
    ( /\ pc = "return"
      /\ max_iterations = DefaultMaxIterations
      /\ schedulable # None )
    => (schedulable[1] <=> rt # None)

\* is_schedulable answered False after a default run over a non-empty list
C6_Witness ==
    /\ pc = "return"
    /\ max_iterations = DefaultMaxIterations
    /\ higher_priority_tasks # <<>>
    /\ schedulable = Some(FALSE)
    /\ rt = None

\* the TaskSet object as get_sorted_tasks leaves it
Self == get_sorted_tasks([tasks |-> tasks, _sorted |-> _sorted])

\* compute_response_time(t, taskset.get_higher_priority_tasks(t))
MemberResponseTime(t) ==
    compute_response_time(t, get_higher_priority_tasks(Self, t).value[1],
                          DefaultMaxIterations)

\* C7: analyze_taskset returns overall = true exactly when every member has a
\* response time (true for the empty set), and it visits and reports every
\* member, also those after an unschedulable one.
C7_OverallIffAll ==
    all_schedulable # None =>
        /\ all_schedulable[1] <=>
               \A i \in 1 .. Len(tasks) : MemberResponseTime(tasks[i]) # None
        /\ analyzed = tasks
        /\ \A i \in 1 .. Len(tasks) :
               task_name(tasks[i]) \in DOMAIN response_times

\* three members under three names: the second has no response time, the
\* third, of lower priority, has one and it is reported
C7_Witness ==
    /\ all_schedulable = Some(FALSE)
    /\ Len(tasks) = 3
    /\ Cardinality(DOMAIN response_times) = 3
    /\ tasks[2].priority[1] < tasks[3].priority[1]
    /\ response_times[task_name(tasks[2])] = None
    /\ response_times[task_name(tasks[3])] # None

\* C8: after analyze_taskset the mapping holds, under every member's key, that
\* member's response time, and it has one entry per member.
C8_OneEntryPerMember ==
    all_schedulable # None =>
        /\ \A i \in 1 .. Len(tasks) :
               /\ task_name(tasks[i]) \in DOMAIN response_times
               /\ response_times[task_name(tasks[i])] =
                      MemberResponseTime(tasks[i])
        /\ Cardinality(DOMAIN response_times) = Len(tasks)

\* some members of s have a priority and others have none
Mixed(s) ==
    \E i, j \in 1 .. Len(s) : s[i].priority = None /\ s[j].priority # None

\* C9: TaskSet(...) raises exactly when its list is mixed, and succeeds when
\* all members have a priority or none has; no TaskSet holds a mixed list.
C9_MixedRejected ==
    ts # "none" =>
        /\ (ts = "error") <=> Mixed(caller_tasks)
        /\ ts = "error" => raised = ValueError
        /\ ts = "constructed" =>
               \A i \in 1 .. Len(tasks) : tasks[i].priority # None

\* the constructor raised on a list of three
C9_Witness ==
    /\ ts = "error"
    /\ Len(caller_tasks) = 3
    /\ raised = ValueError

\* C10: in a constructed TaskSet whose members carry priorities these are
\* pairwise distinct and non-negative.
C10_DistinctNonNegative ==
    ts = "constructed" =>
        /\ \A i \in 1 .. Len(tasks) : tasks[i].priority[1] >= 0
        /\ \A i, j \in 1 .. Len(tasks) :
               i # j => tasks[i].priority[1] # tasks[j].priority[1]

\* a TaskSet built from Tasks without priorities: its list is a new one
RMBuilt == ts = "constructed" /\ ~shared /\ caller_tasks # <<>>

\* the members of s whose period is p, in list order
WithPeriod(s, p) == SelectSeq(s, LAMBDA t : t.T = p)

\* C11: a TaskSet built from n Tasks without priorities has the priorities
\* 0 .. n-1, each once; a shorter period means a smaller priority; members of
\* equal period have priorities in the order of the list passed in.
C11_RateMonotonic ==
    RMBuilt =>
        LET n == Len(caller_tasks)
            byPriority ==
                StableSort(tasks, [i \in 1 .. Len(tasks) |->
                                      PriorityKey(tasks[i])])
        IN  /\ Len(tasks) = n
            /\ \A k \in 0 .. n - 1 :
                   Cardinality({i \in 1 .. n : tasks[i].priority = Some(k)}) = 1
            /\ \A i, j \in 1 .. n :
                   tasks[i].T < tasks[j].T =>
                       tasks[i].priority[1] < tasks[j].priority[1]
            /\ \A p \in {caller_tasks[i].T : i \in 1 .. n} :
                   LET a == WithPeriod(byPriority, p)
                       b == WithPeriod(caller_tasks, p)
                   IN  /\ Len(a) = Len(b)
                       /\ \A k \in 1 .. Len(b) :
                              /\ a[k].C = b[k].C
                              /\ a[k].D = b[k].D
                              /\ b[k].name # "" => a[k].name = b[k].name

\* three Tasks, the first two different and of equal period, the third of a
\* shorter period
C11_Witness ==
    /\ RMBuilt
    /\ Len(caller_tasks) = 3
    /\ caller_tasks[1].T = caller_tasks[2].T
    /\ caller_tasks[1] # caller_tasks[2]
    /\ caller_tasks[3].T < caller_tasks[1].T

\* C12 (as stated): every member of a TaskSet built by Rate-Monotonic
\* assignment equals one Task of the list passed in, in C, T, D and name, and
\* the Tasks of that list are as they were (without priority).
C12_OnlyPriorityDiffers ==
    RMBuilt =>
        /\ \E f \in Permutations(1 .. Len(caller_tasks)) :
               \A i \in 1 .. Len(tasks) :
                   /\ tasks[i].C = caller_tasks[f[i]].C
                   /\ tasks[i].T = caller_tasks[f[i]].T
                   /\ tasks[i].D = caller_tasks[f[i]].D
                   /\ tasks[i].name = caller_tasks[f[i]].name
        /\ \A i \in 1 .. Len(caller_tasks) : caller_tasks[i].priority = None

\* C12 (amended): every member equals one Task of the list passed in, in C, T
\* and D, and in name when that Task has a name; the member made from an
\* unnamed Task is named "τ<p+1>" for its priority p.  The Tasks of the list
\* passed in are as they were.
C12_PriorityAndEmptyNameDiffer ==
    RMBuilt =>
        /\ \E f \in Permutations(1 .. Len(caller_tasks)) :
               \A i \in 1 .. Len(tasks) :
                   /\ tasks[i].C = caller_tasks[f[i]].C
                   /\ tasks[i].T = caller_tasks[f[i]].T
                   /\ tasks[i].D = caller_tasks[f[i]].D
                   /\ tasks[i].name =
                          IF caller_tasks[f[i]].name # ""
                          THEN caller_tasks[f[i]].name
                          ELSE TauName(tasks[i].priority[1] + 1)
        /\ \A i \in 1 .. Len(caller_tasks) : caller_tasks[i].priority = None

\* a named and an unnamed Task with deadlines below their periods
C12_Witness ==
    /\ RMBuilt
    /\ \E i, j \in 1 .. Len(caller_tasks) :
           /\ caller_tasks[i].name = ""
           /\ caller_tasks[j].name # ""
           /\ caller_tasks[i].D < caller_tasks[i].T
           /\ caller_tasks[j].D < caller_tasks[j].T

\* the number of positions of the list s that hold x
Count(s, x) == Cardinality({i \in 1 .. Len(s) : s[i] = x})

\* C13: get_higher_priority_tasks(task) returns, in ascending priority order,
\* exactly the members whose priority is below task.priority, each as often as
\* it is a member; it raises and returns nothing when task.priority is unset.
C13_HigherPrioritySubset ==
    hp_query # None =>
        LET t == hp_query[1].task
            r == hp_query[1].outcome
        IN  IF t.priority = None
            THEN r.raised = ValueError /\ r.value = None
            ELSE /\ r.raised = NoError
                 /\ r.value # None
                 /\ LET hp == r.value[1] IN
                    /\ \A i, j \in 1 .. Len(hp) :
                           i < j => hp[i].priority[1] <= hp[j].priority[1]
                    /\ \A i \in 1 .. Len(hp) :
                           hp[i].priority[1] < t.priority[1]
                    /\ \A i \in 1 .. Len(tasks) :
                           Count(hp, tasks[i]) =
                               IF tasks[i].priority[1] < t.priority[1]
                               THEN Count(tasks, tasks[i])
                               ELSE 0
                    /\ \A i \in 1 .. Len(hp) : Count(tasks, hp[i]) > 0

\* the query about a member of a set of three, one other member having the
\* same priority and one a smaller one
C13_Witness ==
    /\ hp_query # None
    /\ Len(tasks) = 3
    /\ hp_query[1].outcome.value # None
    /\ Len(hp_query[1].outcome.value[1]) = 1
    /\ \E i, j \in 1 .. 3 :
           /\ i # j
           /\ tasks[i] = hp_query[1].task
           /\ tasks[j].priority = tasks[i].priority

\* C14: the TaskSet's constructor and queries leave the caller's list as it
\* was, and a change the caller makes to its list leaves the TaskSet's members
\* as they were.
C14_OwnsMembers ==
    [][ /\ ( \/ TaskSetNew
             \/ GetSortedTasks
             \/ GetHigherPriorityTasks
             \/ AnalyzeTaskset ) => caller_tasks' = caller_tasks
        /\ CallerMutate => tasks' = tasks ]_vars

RECURSIVE SumSeq(_)
\* the sum of a list of numbers
SumSeq(q) == IF q = <<>> THEN 0 ELSE q[1] + SumSeq(Tail(q))

ValidPeriods(g) == 0 < g.period_min /\ g.period_min <= g.period_max

\* 0 < deadline_factor_min <= deadline_factor_max <= 1.0
ValidFactors(g) ==
    /\ 0 < g.deadline_factor_min
    /\ g.deadline_factor_min <= g.deadline_factor_max
    /\ g.deadline_factor_max <= Unit

\* C18: uunifast raises when n <= 0 or u_total < 0; generate_taskset raises
\* whenever the period range or the deadline-factor range is invalid; a call
\* that raises returns nothing and leaves no TaskSet.
C18_GeneratorValidation ==
    /\ uu # None =>
           /\ (uu[1].n <= 0 \/ uu[1].u_total < 0) =>
                  uu[1].outcome.raised = ValueError
           /\ uu[1].outcome.raised # NoError => uu[1].outcome.value = None
    /\ gen # None =>
           /\ ~(ValidPeriods(gen[1]) /\ ValidFactors(gen[1])) =>
                  gen[1].outcome.raised = ValueError
           /\ gen[1].outcome.raised # NoError =>
                  gen[1].outcome.value = None /\ ts = "none"

\* generate_taskset raised for a deadline_factor_max above 1.0, everything
\* else being in order
C18_Witness ==
    /\ gen # None
    /\ gen[1].n >= 1
    /\ gen[1].target_utilization = Unit \div 2
    /\ ValidPeriods(gen[1])
    /\ 0 < gen[1].deadline_factor_min
    /\ gen[1].deadline_factor_min <= gen[1].deadline_factor_max
    /\ gen[1].deadline_factor_max > Unit
    /\ gen[1].outcome.raised = ValueError
    /\ ts = "none"

\* the arguments of a generate_taskset call pass validation
ValidCall(g) ==
    /\ g.n >= 1
    /\ g.target_utilization >= 0
    /\ ValidPeriods(g)
    /\ ValidFactors(g)

\* C19: for arguments that pass validation generate_taskset returns a TaskSet
\* of exactly n tasks, each with 0 < C <= D <= T, D being T * factor unless
\* that is below C, and C then.
C19_GeneratedTasksValid ==
    (gen # None /\ ValidCall(gen[1])) =>
        /\ gen[1].outcome.raised = NoError
        /\ LET made == gen[1].outcome.value[1].tasks IN
           /\ Len(made) = gen[1].n
           /\ \A i \in 1 .. Len(made) :
                  /\ 0 < made[i].C
                  /\ made[i].C <= made[i].D
                  /\ made[i].D <= made[i].T
                  /\ \E factor \in gen[1].deadline_factor_min ..
                                   gen[1].deadline_factor_max :
                         LET D == (made[i].T \div Unit) * factor IN
                         made[i].D = IF D < made[i].C THEN made[i].C ELSE D

\* C20: generate_taskset with a target utilization above 1 returns a TaskSet,
\* and analyze_taskset reports it unschedulable.
C20_OverUtilizedUnschedulable ==
    ( /\ gen # None
      /\ ValidCall(gen[1])
      /\ gen[1].target_utilization > Unit ) =>
        /\ gen[1].outcome.raised = NoError
        /\ all_schedulable # None => all_schedulable = Some(FALSE)

\* C15: a bad Task, an inconsistent TaskSet, a query about a Task without
\* priority and a bad generator argument raise four different kinds of error.
C15_DistinctErrorKinds ==
    LET badTask == Task(0, 1, None, "", None).raised
        a == Task(1, 2, None, "", None).value[1]
        b == Task(1, 2, None, "", Some(0)).value[1]
        badSet == TaskSet(<<a, b>>).raised
        badQuery == get_higher_priority_tasks(
                        [tasks |-> <<b>>, _sorted |-> FALSE], a).raised
    IN  /\ ts = "error" => raised # badTask
        /\ (hp_query # None /\ hp_query[1].outcome.raised # NoError) =>
               hp_query[1].outcome.raised \notin {badTask, badSet}
        /\ (gen # None /\ ~(ValidPeriods(gen[1]) /\ ValidFactors(gen[1]))) =>
               gen[1].outcome.raised \notin {NoError, badTask, badSet, badQuery}
        /\ (uu # None /\ (uu[1].n <= 0 \/ uu[1].u_total < 0)) =>
               uu[1].outcome.raised \notin {NoError, badTask, badSet, badQuery}

\* C23: compute_response_time returns None at the first iterate above D, also
\* when that iterate is within the tolerance of its predecessor, and an
\* iterate equal to D is no miss: a sequence that settles on D returns D.
C23_DeadlineBeforeConvergence ==
    pc = "return" =>
        LET n == Len(iterates)
            D == task[1].D
        IN  /\ \A i \in 1 .. n - 1 : iterates[i] <= D
            /\ iterates[n] > D => rt = None
            /\ (n >= 2 /\ iterates[n] = D /\ iterates[n - 1] = D) =>
                   rt = Some(D)

\* None was returned for an iterate above D that the convergence test would
\* have accepted
C23_Witness ==
    /\ pc = "return"
    /\ rt = None
    /\ Len(iterates) >= 3
    /\ iterates[Len(iterates)] > task[1].D
    /\ Converged(iterates[Len(iterates)], iterates[Len(iterates) - 1])

\* C24: the iterates of compute_response_time never decrease and start at C.
C24_MonotoneIterates ==
    pc # "idle" =>
        /\ iterates[1] = task[1].C
        /\ \A i \in 1 .. Len(iterates) - 1 : iterates[i] <= iterates[i + 1]
        /\ \A i \in 1 .. Len(iterates) : iterates[i] >= task[1].C

\* four iterates over two higher-priority tasks, each above the one before
C24_Witness ==
    /\ pc = "loop"
    /\ Len(higher_priority_tasks) = 2
    /\ Len(iterates) = 4
    /\ \A i \in 1 .. 3 : iterates[i] < iterates[i + 1]

\* the shortest period among the tasks of a non-empty list
MinPeriod(hp) ==
    CHOOSE p \in {hp[i].T : i \in 1 .. Len(hp)} :
        \A i \in 1 .. Len(hp) : p <= hp[i].T

\* C25: with a non-empty list of higher-priority tasks compute_response_time
\* returns because of convergence or a deadline miss, never because
\* max_iterations ran out, after at most D / min_j(T_j) passes of the loop.
C25_CapNeverBinds ==
    (pc = "return" /\ higher_priority_tasks # <<>>) =>
        /\ rt # None \/ iterates[Len(iterates)] > task[1].D
        /\ (Len(iterates) - 1) * MinPeriod(higher_priority_tasks)
               <= task[1].D

\* the list s is in non-decreasing priority order
InPriorityOrder(s) ==
    \A i, j \in 1 .. Len(s) :
        i < j => s[i].priority[1] <= s[j].priority[1]

\* C26: on a constructed TaskSet, after any queries, get_sorted_tasks returns
\* all members in non-decreasing priority order and a second call returns the
\* same list; whenever _sorted is true the stored list is in priority order.
C26_SortedFlag ==
    ts = "constructed" =>
        /\ _sorted => InPriorityOrder(tasks)
        /\ LET once == get_sorted_tasks([tasks |-> tasks, _sorted |-> _sorted])
               twice == get_sorted_tasks(once)
           IN  /\ InPriorityOrder(once.tasks)
               /\ Len(once.tasks) = Len(tasks)
               /\ \A i \in 1 .. Len(tasks) :
                      Count(once.tasks, tasks[i]) = Count(tasks, tasks[i])
               /\ twice.tasks = once.tasks

\* a TaskSet of three Tasks that came with priorities, two of them different,
\* after an analysis and a query
C26_Witness ==
    /\ ts = "constructed"
    /\ shared
    /\ _sorted
    /\ Len(tasks) = 3
    /\ tasks[1].priority[1] < tasks[3].priority[1]
    /\ all_schedulable # None
    /\ hp_query # None

\* the arguments of a generate_random_task_set_uunifast call are valid
ValidFlatCall(f) ==
    /\ f.n >= 1
    /\ f.u_total >= 0
    /\ 0 < f.min_period
    /\ f.min_period <= f.max_period

\* C21 (as stated): for valid arguments generate_random_task_set_uunifast
\* returns n Tasks with D = T and C not below the floor 0.001.
C21_FlatFloor ==
    (flat # None /\ ValidFlatCall(flat[1])) =>
        /\ flat[1].outcome.raised = NoError
        /\ LET made == flat[1].outcome.value[1] IN
           /\ Len(made) = flat[1].n
           /\ \A i \in 1 .. Len(made) :
                  /\ made[i].D = made[i].T
                  /\ made[i].C >= MinC

\* C21 (amended): for valid arguments generate_random_task_set_uunifast
\* returns n Tasks with D = T and C not below the smaller of the floor 0.001
\* and T.
C21_FlatFloorUpToPeriod ==
    (flat # None /\ ValidFlatCall(flat[1])) =>
        /\ flat[1].outcome.raised = NoError
        /\ LET made == flat[1].outcome.value[1] IN
           /\ Len(made) = flat[1].n
           /\ \A i \in 1 .. Len(made) :
                  /\ made[i].D = made[i].T
                  /\ made[i].C >= (IF MinC < made[i].T THEN MinC
                                   ELSE made[i].T)

\* three Tasks of utilization 0 were made, their C raised to the floor, below
\* their period
C21_Witness ==
    /\ flat # None
    /\ flat[1].n = 3
    /\ flat[1].u_total = 0
    /\ flat[1].outcome.raised = NoError
    /\ \A i \in 1 .. 3 :
           /\ flat[1].outcome.value[1][i].C = MinC
           /\ flat[1].outcome.value[1][i].T > MinC

\* C22: the Tasks generate_random_task_set_uunifast returns all have a
\* priority, and a shorter period means a smaller priority.
C22_FlatPriorities ==
    (flat # None /\ flat[1].outcome.raised = NoError) =>
        LET made == flat[1].outcome.value[1] IN
        /\ \A i \in 1 .. Len(made) : made[i].priority # None
        /\ \A i, j \in 1 .. Len(made) :
               made[i].T < made[j].T =>
                   made[i].priority[1] < made[j].priority[1]

\* C27: all random draws of one generate_taskset call come from one generator,
\* and no two of them read the same position of the stream the seed starts.
C27_SingleStream ==
    (gen # None /\ gen[1].outcome.raised = NoError) =>
        LET draws == gen[1].draws IN
        \A i, j \in 1 .. Len(draws) :
            /\ draws[i].generator = draws[j].generator
            /\ (gen[1].seed # None /\ i # j) =>
                   draws[i].position # draws[j].position

====
